---- MODULE Spec2Model ----
(***************************************************************************)
(* Model of the editing session of the Tiptap DOCX placeholder demo:       *)
(* the update scheduler (useEditorDebounce), the page handlers that it     *)
(* drives (handleSave, handlePlaceholderUpdate, handleEditorUpdate,        *)
(* handleManualSave), the editor's onUpdate hook with its own scanner      *)
(* (findPlaceholders) and the draft store (saveDraft).                     *)
(*                                                                         *)
(* JavaScript runs every handler to its first await in one turn of the     *)
(* event loop and every continuation of a settled promise before the next  *)
(* timer or input event, so an action is a handler up to its await, or the *)
(* settling of saveDraft together with all continuations it releases.      *)
(***************************************************************************)
EXTENDS Integers, Sequences, FiniteSets, TLC

VARIABLES
    doc,                  \* editor.state.doc: the text nodes, in document order
    placeholders,         \* page state `placeholders` (the Placeholder Index)
    timerRef,             \* useEditorDebounce timerRef.current (0 is null)
    latestHtmlRef,        \* useEditorDebounce latestHtmlRef.current
    isManualSaveDisabled, \* useEditorDebounce state
    isSaving,             \* page state
    hasUnsavedChanges,    \* page state
    drafts,               \* services/cases.ts module array `drafts`
    timers,               \* host timer table: armed timeouts of the hook
    inflight,             \* cycles awaiting saveDraft: id, kind, html passed to onSave,
                          \* arg (the html argument in the closure that started the cycle),
                          \* stamp (history: the value of nextTimer when the cycle started)
    nextTimer,            \* next id setTimeout hands out
    nextCycle,            \* next id of a save-then-scan cycle
    fired,                \* history: ids of the timers whose callback has run
    scanned,              \* history: ids of the cycles that have called onPlaceholdersUpdate
    sinceManual,          \* history: "never" (no manualSave yet), "quiet" (no edit since
                          \*          the last manualSave call) or "edited"
    manualDone,           \* history: a manualSave has completed and no edit arrived since
    lastResult,           \* history: how the last settled saveDraft ended, until the next edit
    lastScan,             \* history: the scanner that ran last, "none", "editor" or "page"
    source,               \* history: the pieces the document loaded at start was written as
    clock,                \* seconds elapsed (autosave of the first page revision)
    unsavedSince,         \* history: time of the first edit no save was issued after, -1 if none
    editorReady,          \* the editor instance of useEditor exists (editor is not null)
    selection,            \* editor.state.selection as [from, to]
    focused,              \* the editing surface has the focus
    threw,                \* history: a navigation call has thrown
    importPhase,          \* import of docUrl: "none", "fetching", "unfetched", "converting", "imported", "failed"
    isLoading,            \* TiptapEditorCore state isLoading
    effectTimer,          \* the 300 ms timeout of the placeholder-detection effect is armed
    exportPending,        \* an exportToDocx call is awaiting the server
    exportFailed,         \* history: the last export ended in the alert
    failedAt,             \* history: the value of nextTimer at the last DOCX failure, 0 if none
    tiptapToken,          \* TiptapEditor state tiptapToken is not null
    tokenError,           \* TiptapEditor state error: "none", "timeout" (message with 'timed out') or "other"
    tokenPending,         \* the request to /api/generate-token has not settled
    mounted               \* the editing page is mounted

vars == <<doc, placeholders, timerRef, latestHtmlRef, isManualSaveDisabled,
          isSaving, hasUnsavedChanges, drafts, timers, inflight, nextTimer,
          nextCycle, fired, scanned, sinceManual, manualDone, lastResult,
          lastScan, source, clock, unsavedSince,
          editorReady, selection, focused, threw,
          importPhase, isLoading, effectTimer, exportPending, exportFailed, failedAt,
          tiptapToken, tokenError, tokenPending, mounted>>

-----------------------------------------------------------------------------
(* Bounds *)

MaxEdits == 4

MaxCycles == 3

-----------------------------------------------------------------------------
(* Strings are sequences of one-character strings. *)

IsSpace(c) == c = " "

RECURSIVE TrimStart(_)
TrimStart(s) ==
    IF s # <<>> /\ IsSpace(Head(s)) THEN TrimStart(Tail(s)) ELSE s

RECURSIVE TrimEnd(_)
TrimEnd(s) ==
    IF s # <<>> /\ IsSpace(s[Len(s)]) THEN TrimEnd(SubSeq(s, 1, Len(s) - 1)) ELSE s

\* String.prototype.trim
Trim(s) == TrimEnd(TrimStart(s))

\* String.prototype.slice(a, -b) for 0 <= a and b > 0
Slice(s, a, b) == SubSeq(s, a + 1, Len(s) - b)

StartsWith(s, p) == Len(s) >= Len(p) /\ SubSeq(s, 1, Len(p)) = p

EndsWith(s, p) == Len(s) >= Len(p) /\ SubSeq(s, Len(s) - Len(p) + 1, Len(s)) = p

\* String.prototype.split('|'): always at least one part
RECURSIVE SplitPipe(_)
SplitPipe(s) ==
    IF \E i \in 1..Len(s) : s[i] = "|"
    THEN LET i == CHOOSE k \in 1..Len(s) :
                     s[k] = "|" /\ \A j \in 1..(k - 1) : s[j] # "|"
         IN  <<SubSeq(s, 1, i - 1)>> \o SplitPipe(SubSeq(s, i + 1, Len(s)))
    ELSE <<s>>

-----------------------------------------------------------------------------
(* The placeholder pattern /{{.*?}}|\[.*?\]/g *)

\* Index (1-based) of the last character of the match that starts at i, 0 if
\* the pattern does not match at i.  Both alternatives are lazy: the match
\* ends at the first closing delimiter.
MatchEndAt(text, i) ==
    IF text[i] = "{" /\ i + 1 <= Len(text) /\ text[i + 1] = "{"
    THEN IF \E k \in (i + 2)..(Len(text) - 1) : text[k] = "}" /\ text[k + 1] = "}"
         THEN 1 + CHOOSE k \in (i + 2)..(Len(text) - 1) :
                      /\ text[k] = "}" /\ text[k + 1] = "}"
                      /\ \A j \in (i + 2)..(k - 1) : ~(text[j] = "}" /\ text[j + 1] = "}")
         ELSE 0
    ELSE IF text[i] = "["
    THEN IF \E k \in (i + 1)..Len(text) : text[k] = "]"
         THEN CHOOSE k \in (i + 1)..Len(text) :
                  text[k] = "]" /\ \A j \in (i + 1)..(k - 1) : text[j] # "]"
         ELSE 0
    ELSE 0

\* The successive results of regex.exec(text) from lastIndex = i - 1:
\* leftmost, non-overlapping; index is match.index (0-based).
RECURSIVE ExecAll(_, _)
ExecAll(text, i) ==
    IF i > Len(text) THEN <<>>
    ELSE LET e == MatchEndAt(text, i)
         IN  IF e = 0 THEN ExecAll(text, i + 1)
             ELSE <<[index |-> i - 1, raw |-> SubSeq(text, i, e)]>> \o ExecAll(text, e + 1)

-----------------------------------------------------------------------------
(* Label derivation, identical in both scanners *)

\* Label taking the last part of a double-brace token
Label_LastPart(rawText) ==
    IF StartsWith(rawText, <<"{", "{">>) /\ EndsWith(rawText, <<"}", "}">>)
    THEN LET parts == SplitPipe(Slice(rawText, 2, 2))
         IN  IF Len(parts) > 1 /\ parts[Len(parts)] # <<>>
             THEN Trim(parts[Len(parts)])
             ELSE rawText
    ELSE IF StartsWith(rawText, <<"[">>) /\ EndsWith(rawText, <<"]">>)
    THEN Trim(Slice(rawText, 1, 1))
    ELSE rawText

Label(rawText) ==
    IF StartsWith(rawText, <<"{", "{">>) /\ EndsWith(rawText, <<"}", "}">>)
    THEN LET parts == SplitPipe(Slice(rawText, 2, 2))
         IN  IF Len(parts) > 1 /\ parts[Len(parts) - 1] # <<>>
             THEN Trim(parts[Len(parts) - 1])
             ELSE rawText
    ELSE IF StartsWith(rawText, <<"[">>) /\ EndsWith(rawText, <<"]">>)
    THEN Trim(Slice(rawText, 1, 1))
    ELSE rawText

\* Record with the node's base offset left out of from and to
Record_NoBase(rawText, pos, index) ==
    [text |-> rawText, label |-> Label(rawText),
     from |-> index, to |-> index + Len(rawText)]

\* Record with an inclusive end offset
Record_InclusiveTo(rawText, pos, index) ==
    [text |-> rawText, label |-> Label(rawText),
     from |-> pos + index, to |-> pos + index + Len(rawText) - 1]

Record(rawText, pos, index) ==
    [text |-> rawText, label |-> Label(rawText),
     from |-> pos + index, to |-> pos + index + Len(rawText)]

-----------------------------------------------------------------------------
(* Scanner of the page: handlePlaceholderUpdate *)

\* the filter of the page's scanner: the three literal forms only
IsSkippedByPage(rawText) ==
    \/ rawText = <<"[", "]">>
    \/ rawText = <<"{", "}">>
    \/ rawText = <<"{", "{", "}", "}">>

RECURSIVE PageScanMatches(_, _)
PageScanMatches(ms, pos) ==
    IF ms = <<>> THEN <<>>
    ELSE LET m == Head(ms)
         IN  IF IsSkippedByPage(m.raw)
             THEN PageScanMatches(Tail(ms), pos)
             ELSE <<Record(m.raw, pos, m.index)>> \o PageScanMatches(Tail(ms), pos)

\* traversal that puts the records of later text nodes first
RECURSIVE PageScan_LastFirst(_)
PageScan_LastFirst(d) ==
    IF d = <<>> THEN <<>>
    ELSE PageScan_LastFirst(Tail(d)) \o PageScanMatches(ExecAll(Head(d).text, 1), Head(d).pos)

\* doc.descendants over the text nodes, in document order
RECURSIVE PageScan(_)
PageScan(d) ==
    IF d = <<>> THEN <<>>
    ELSE PageScanMatches(ExecAll(Head(d).text, 1), Head(d).pos) \o PageScan(Tail(d))

\* comparison that looks at the texts only
HasChanged_TextOnly(prev, found) ==
    \/ Len(prev) # Len(found)
    \/ \E i \in 1..Len(found) : found[i].text # prev[i].text

\* the comparison inside setPlaceholders(prev => ...)
HasChanged(prev, found) ==
    \/ Len(prev) # Len(found)
    \/ \E i \in 1..Len(found) :
           \/ found[i].text # prev[i].text
           \/ found[i].from # prev[i].from
           \/ found[i].to # prev[i].to

\* the state left by handlePlaceholderUpdate
HandlePlaceholderUpdate(prev, d) ==
    LET found == PageScan(d)
    IN  IF HasChanged(prev, found) THEN found ELSE prev

-----------------------------------------------------------------------------
(* Scanner of the editor component: findPlaceholders *)

IsEmptyPlaceholder(rawText) ==
    IF rawText = <<"[", "]">> \/ rawText = <<"{", "}">> \/ rawText = <<"{", "{", "}", "}">>
    THEN TRUE
    ELSE IF StartsWith(rawText, <<"{", "{">>) /\ EndsWith(rawText, <<"}", "}">>)
    THEN Trim(Slice(rawText, 2, 2)) = <<>>
    ELSE IF StartsWith(rawText, <<"[">>) /\ EndsWith(rawText, <<"]">>)
    THEN Trim(Slice(rawText, 1, 1)) = <<>>
    ELSE FALSE

\* found is the list built so far; its texts are the set uniquePlaceholders
RECURSIVE FindInMatches(_, _, _)
FindInMatches(ms, pos, found) ==
    IF ms = <<>> THEN found
    ELSE LET m == Head(ms)
         IN  IF IsEmptyPlaceholder(m.raw) \/ (\E i \in 1..Len(found) : found[i].text = m.raw)
             THEN FindInMatches(Tail(ms), pos, found)
             ELSE FindInMatches(Tail(ms), pos, Append(found, Record(m.raw, pos, m.index)))

RECURSIVE FindInNodes(_, _)
FindInNodes(d, found) ==
    IF d = <<>> THEN found
    ELSE FindInNodes(Tail(d), FindInMatches(ExecAll(Head(d).text, 1), Head(d).pos, found))

FindPlaceholders(d) == FindInNodes(d, <<>>)

-----------------------------------------------------------------------------
(* The editing surface *)

\* editor.getHTML(): one paragraph element per text node, an empty paragraph
\* for the empty document
RECURSIVE Paragraphs(_)
Paragraphs(d) ==
    IF d = <<>> THEN <<>>
    ELSE <<"<p>">> \o Head(d).text \o <<"</p>">> \o Paragraphs(Tail(d))

GetHTML(d) == IF d = <<>> THEN <<"<p>", "</p>">> ELSE Paragraphs(d)

\* the text of the first paragraph starts at document position 1
Para(text) == <<[pos |-> 1, text |-> text]>>

\* the documents the user moves between
Docs ==
    { <<>>,
      Para(<<"a">>),
      Para(<<"[", "a", "]", "[", "a", "]">>) }

-----------------------------------------------------------------------------
(* The draft store: services/cases.ts *)

MaxDrafts == 10

\* the array `drafts` after saveDraft(html) has resolved
SaveDraft(ds, html) ==
    LET pushed == Append(ds, html)
    IN  IF Len(pushed) > MaxDrafts THEN Tail(pushed) ELSE pushed

-----------------------------------------------------------------------------
(* The session *)

Init ==
    /\ doc = <<>>
    /\ placeholders = <<>>
    /\ timerRef = 0
    /\ latestHtmlRef = <<>>
    /\ isManualSaveDisabled = FALSE
    /\ isSaving = FALSE
    /\ hasUnsavedChanges = FALSE
    /\ drafts = <<>>
    /\ timers = {}
    /\ inflight = {}
    /\ nextTimer = 1
    /\ nextCycle = 1
    /\ fired = {}
    /\ scanned = {}
    /\ sinceManual = "never"
    /\ manualDone = FALSE
    /\ lastResult = "none"
    /\ lastScan = "none"
    /\ source = <<>>
    /\ clock = 0
    /\ unsavedSince = -1
    /\ tiptapToken = TRUE
    /\ tokenError = "none"
    /\ tokenPending = FALSE
    /\ mounted = TRUE
    /\ importPhase = "none"
    /\ isLoading = FALSE
    /\ effectTimer = FALSE
    /\ exportPending = FALSE
    /\ exportFailed = FALSE
    /\ failedAt = 0
    /\ editorReady = TRUE
    /\ selection = [from |-> 1, to |-> 1]
    /\ focused = FALSE
    /\ threw = FALSE

\* handleSave's guard: !html || !html.trim()
IsBlank(html) == Trim(html) = <<>>

\* the timers left armed by `if (timerRef.current) clearTimeout(timerRef.current)`
ClearTimeout(ts, ref) == IF ref # 0 THEN {t \in ts : t.id # ref} ELSE ts

\* AfterSave with manualSave's setIsManualSaveDisabled(true) left out
AfterSave_NoDisable(id, kind) ==
    /\ placeholders' = HandlePlaceholderUpdate(placeholders, doc)
    /\ scanned' = scanned \cup {id}
    /\ lastScan' = "page"
    /\ IF kind = "debounced"
       THEN /\ timerRef' = 0
            /\ UNCHANGED <<isManualSaveDisabled, manualDone>>
       ELSE /\ manualDone' = TRUE
            /\ UNCHANGED <<timerRef, isManualSaveDisabled>>

\* The rest of a cycle body once `await onSave(...)` has returned:
\* onPlaceholdersUpdate(), then timerRef.current = null (timer body) or
\* setIsManualSaveDisabled(true) (manualSave).
AfterSave(id, kind) ==
    /\ placeholders' = HandlePlaceholderUpdate(placeholders, doc)
    /\ scanned' = scanned \cup {id}
    /\ lastScan' = "page"
    /\ IF kind = "debounced"
       THEN /\ timerRef' = 0
            /\ UNCHANGED <<isManualSaveDisabled, manualDone>>
       ELSE /\ isManualSaveDisabled' = TRUE
            /\ manualDone' = TRUE
            /\ UNCHANGED timerRef

\* onUpdate hook whose debouncedUpdate clears the timer and arms none
OnUpdate_NoTimer(d) ==
    /\ nextTimer <= MaxEdits
    /\ d # doc
    /\ doc' = d
    /\ hasUnsavedChanges' = TRUE
    /\ isManualSaveDisabled' = FALSE
    /\ latestHtmlRef' = GetHTML(d)
    /\ timers' = ClearTimeout(timers, timerRef)
    /\ timerRef' = 0
    /\ nextTimer' = nextTimer + 1
    /\ placeholders' = FindPlaceholders(d)
    /\ lastScan' = "editor"
    /\ sinceManual' = IF sinceManual = "never" THEN "never" ELSE "edited"
    /\ manualDone' = FALSE
    /\ lastResult' = "none"
    /\ UNCHANGED <<isSaving, drafts, inflight, nextCycle, fired, scanned>>
    /\ UNCHANGED <<source, clock, unsavedSince,
                   editorReady, selection, focused, threw,
                   tiptapToken, tokenError, tokenPending, mounted>>

\* The editor's onUpdate after a transaction that replaced the content by d:
\* handleEditorUpdate(getHTML()), which is setHasUnsavedChanges(true) and
\* the hook's handleContentChange and debouncedUpdate, and then
\* onPlaceholdersChange(findPlaceholders(editor)), which is handlePlaceholders.
OnUpdate(d) ==
    /\ nextTimer <= MaxEdits
    /\ d # doc
    /\ doc' = d
    /\ hasUnsavedChanges' = TRUE
    /\ isManualSaveDisabled' = FALSE
    /\ latestHtmlRef' = GetHTML(d)
    /\ timers' = ClearTimeout(timers, timerRef) \cup {[id |-> nextTimer, html |-> GetHTML(d)]}
    /\ timerRef' = nextTimer
    /\ nextTimer' = nextTimer + 1
    /\ placeholders' = FindPlaceholders(d)
    /\ lastScan' = "editor"
    /\ sinceManual' = IF sinceManual = "never" THEN "never" ELSE "edited"
    /\ manualDone' = FALSE
    /\ lastResult' = "none"
    /\ UNCHANGED <<isSaving, drafts, inflight, nextCycle, fired, scanned>>
    /\ UNCHANGED <<source, clock, unsavedSince,
                   editorReady, selection, focused, threw,
                   tiptapToken, tokenError, tokenPending, mounted>>

\* an edit by the user
EditorUpdate(d) ==
    /\ OnUpdate(d)
    /\ UNCHANGED <<importPhase, isLoading, effectTimer, exportPending, exportFailed, failedAt>>

\* TimerFire with onPlaceholdersUpdate() called before `await onSave(...)`
TimerFire_ScanFirst(t) ==
    /\ t \in timers
    /\ nextCycle <= MaxCycles
    /\ timers' = timers \ {t}
    /\ fired' = fired \cup {t.id}
    /\ nextCycle' = nextCycle + 1
    /\ placeholders' = HandlePlaceholderUpdate(placeholders, doc)
    /\ scanned' = scanned \cup {nextCycle}
    /\ lastScan' = "page"
    /\ IF IsBlank(latestHtmlRef)
       THEN /\ timerRef' = 0
            /\ UNCHANGED <<isSaving, inflight>>
       ELSE /\ isSaving' = TRUE
            /\ inflight' = inflight \cup
                   {[id |-> nextCycle, kind |-> "debounced", html |-> latestHtmlRef,
                     arg |-> t.html, stamp |-> nextTimer]}
            /\ UNCHANGED timerRef
    /\ UNCHANGED <<doc, latestHtmlRef, hasUnsavedChanges, drafts, nextTimer,
                   sinceManual, lastResult, isManualSaveDisabled, manualDone>>
    /\ UNCHANGED <<source, clock, unsavedSince,
                   editorReady, selection, focused, threw,
                   importPhase, isLoading, effectTimer, exportPending, exportFailed, failedAt,
                   tiptapToken, tokenError, tokenPending, mounted>>

\* TimerFire passing the html argument of its closure instead of latestHtmlRef
TimerFire_ClosureArg(t) ==
    /\ t \in timers
    /\ nextCycle <= MaxCycles
    /\ timers' = timers \ {t}
    /\ fired' = fired \cup {t.id}
    /\ nextCycle' = nextCycle + 1
    /\ IF IsBlank(t.html)
       THEN /\ AfterSave(nextCycle, "debounced")
            /\ UNCHANGED <<isSaving, inflight>>
       ELSE /\ isSaving' = TRUE
            /\ inflight' = inflight \cup
                   {[id |-> nextCycle, kind |-> "debounced", html |-> t.html,
                     arg |-> t.html, stamp |-> nextTimer]}
            /\ UNCHANGED <<placeholders, scanned, lastScan, timerRef,
                           isManualSaveDisabled, manualDone>>
    /\ UNCHANGED <<doc, latestHtmlRef, hasUnsavedChanges, drafts, nextTimer,
                   sinceManual, lastResult>>
    /\ UNCHANGED <<source, clock, unsavedSince,
                   editorReady, selection, focused, threw,
                   importPhase, isLoading, effectTimer, exportPending, exportFailed, failedAt,
                   tiptapToken, tokenError, tokenPending, mounted>>

\* The timeout t expires: the timer body runs up to `await onSave(...)`,
\* handleSave up to `await saveDraft(html)`.
TimerFire(t) ==
    /\ t \in timers
    /\ nextCycle <= MaxCycles
    /\ timers' = timers \ {t}
    /\ fired' = fired \cup {t.id}
    /\ nextCycle' = nextCycle + 1
    /\ IF IsBlank(latestHtmlRef)
       THEN /\ AfterSave(nextCycle, "debounced")
            /\ UNCHANGED <<isSaving, inflight>>
       ELSE /\ isSaving' = TRUE
            /\ inflight' = inflight \cup
                   {[id |-> nextCycle, kind |-> "debounced", html |-> latestHtmlRef,
                     arg |-> t.html, stamp |-> nextTimer]}
            /\ UNCHANGED <<placeholders, scanned, lastScan, timerRef,
                           isManualSaveDisabled, manualDone>>
    /\ UNCHANGED <<doc, latestHtmlRef, hasUnsavedChanges, drafts, nextTimer,
                   sinceManual, lastResult>>
    /\ UNCHANGED <<source, clock, unsavedSince,
                   editorReady, selection, focused, threw,
                   importPhase, isLoading, effectTimer, exportPending, exportFailed, failedAt,
                   tiptapToken, tokenError, tokenPending, mounted>>

\* the Save button's `disabled` attribute
SaveButtonDisabled == isManualSaveDisabled \/ isSaving \/ ~hasUnsavedChanges

\* A click on the Save button: handleManualSave, manualSave up to
\* `await onSave(html)`, handleSave up to `await saveDraft(html)`.
ManualSave ==
    /\ ~SaveButtonDisabled
    /\ nextCycle <= MaxCycles
    /\ GetHTML(doc) # <<>> /\ ~isManualSaveDisabled
    /\ timers' = ClearTimeout(timers, timerRef)
    /\ nextCycle' = nextCycle + 1
    /\ sinceManual' = "quiet"
    /\ IF IsBlank(GetHTML(doc))
       THEN /\ placeholders' = HandlePlaceholderUpdate(placeholders, doc)
            /\ scanned' = scanned \cup {nextCycle}
            /\ lastScan' = "page"
            /\ isManualSaveDisabled' = TRUE
            /\ manualDone' = TRUE
            /\ UNCHANGED <<isSaving, inflight>>
       ELSE /\ isSaving' = TRUE
            /\ inflight' = inflight \cup
                   {[id |-> nextCycle, kind |-> "manual", html |-> GetHTML(doc),
                     arg |-> GetHTML(doc), stamp |-> nextTimer]}
            /\ UNCHANGED <<placeholders, scanned, lastScan, isManualSaveDisabled, manualDone>>
    /\ timerRef' = 0
    /\ UNCHANGED <<doc, latestHtmlRef, hasUnsavedChanges, drafts, nextTimer,
                   fired, lastResult>>
    /\ UNCHANGED <<source, clock, unsavedSince,
                   editorReady, selection, focused, threw,
                   importPhase, isLoading, effectTimer, exportPending, exportFailed, failedAt,
                   tiptapToken, tokenError, tokenPending, mounted>>

\* saveDraft of cycle c settles (ok: resolved, otherwise rejected):
\* handleSave's continuation with its catch and finally, then the rest of
\* the cycle body.  handleSave catches the rejection, so onSave resolves
\* either way.
SaveDraftSettles(c, ok) ==
    /\ c \in inflight
    /\ inflight' = inflight \ {c}
    /\ IF ok
       THEN /\ drafts' = SaveDraft(drafts, c.html)
            /\ hasUnsavedChanges' = FALSE
       ELSE UNCHANGED <<drafts, hasUnsavedChanges>>
    /\ isSaving' = FALSE
    /\ lastResult' = IF ok THEN "ok" ELSE "failed"
    /\ AfterSave(c.id, c.kind)
    /\ UNCHANGED <<doc, latestHtmlRef, timers, nextTimer, nextCycle, fired, sinceManual>>
    /\ UNCHANGED <<source, clock, unsavedSince,
                   editorReady, selection, focused, threw,
                   importPhase, isLoading, effectTimer, exportPending, exportFailed, failedAt,
                   tiptapToken, tokenError, tokenPending, mounted>>

Next ==
    \/ \E d \in Docs : EditorUpdate(d)
    \/ \E t \in timers : TimerFire(t)
    \/ ManualSave
    \/ \E c \in inflight : \E ok \in BOOLEAN : SaveDraftSettles(c, ok)

Spec == Init /\ [][Next]_vars

-----------------------------------------------------------------------------
(* Steps, as seen from a pair of states *)

\* a cycle is started by the Save button (not by a timer)
ManualStep == nextCycle' # nextCycle /\ fired' = fired

\* a saveDraft call rejects
RejectStep == inflight' # inflight /\ inflight' \subseteq inflight /\ lastResult' = "failed"

-----------------------------------------------------------------------------
(* The update scheduler *)

\* C1: a burst of edit notifications starts one cycle, the one scheduled by
\* its last notification: a timer whose callback runs is the timer armed by
\* the most recent edit notification.
C1_OnlyLastTimerFires ==
    [][\A id \in fired' \ fired : id = nextTimer - 1]_vars

\* C2: at no time are two persistence calls in flight.
C2_OneSaveInFlight == Cardinality(inflight) <= 1

\* C3: at most one quiet-period timer is armed in every reachable state.
C3_OneTimerArmed == Cardinality(timers) <= 1

\* C4: a manual save leaves no timer armed and starts exactly one cycle with
\* the content read at call time, and no timer callback runs after a manual
\* save unless an edit notification arrived after it.
C4_ManualCancelsDebounce ==
    [][/\ ManualStep =>
            /\ timers' = {}
            /\ \A c \in inflight' \ inflight : c.kind = "manual" /\ c.html = GetHTML(doc)
            /\ Cardinality(inflight' \ inflight) = 1
       /\ sinceManual = "quiet" => fired' = fired]_vars

\* C5: once a manual save has completed, and until the next edit
\* notification, the Save button starts no cycle (no persistence call, no scan).
C5_SecondManualIsNoOp ==
    [][manualDone => ~ManualStep]_vars

\* C5 witness: a manual save has completed, no edit since, and only the
\* flag stands between a click and a new save.
C5_Witness == manualDone /\ hasUnsavedChanges /\ ~isSaving /\ isManualSaveDisabled

\* C6: if an edit notification arrived after the last manual save was
\* triggered, then once that save has completed isManualSaveDisabled is false.
C6_DisabledOnlyWhileUnchanged ==
    (sinceManual = "edited" /\ ~(\E c \in inflight : c.kind = "manual"))
        => ~isManualSaveDisabled

\* C7: a cycle whose persistence call fails does not invoke the scanner and
\* leaves the Placeholder Index unchanged.
C7_FailedSaveSkipsScan ==
    [][RejectStep => (scanned' = scanned /\ placeholders' = placeholders)]_vars

\* C8: after a failed persistence call, with no further edit and nothing in
\* flight, the Save button accepts a click.
C8_RetryAfterFailure ==
    (lastResult = "failed" /\ inflight = {}) => ~SaveButtonDisabled

\* C9: a cycle calls onPlaceholdersUpdate only after its own persistence call
\* was made and has returned: no cycle that is not started yet, and no cycle
\* whose saveDraft is in flight, has scanned.
C9_ScanAfterSave ==
    \A id \in scanned : id < nextCycle /\ ~(\E c \in inflight : c.id = id)

\* C9 witness: one cycle has scanned while another one awaits its saveDraft.
C9_Witness == scanned # {} /\ inflight # {}

\* C10: the content a debounced cycle passes to persistence is the content
\* of the most recent edit notification (the current document's markup).
C10_DebouncedSavesLatest ==
    [][\A c \in inflight' \ inflight :
           c.kind = "debounced" => c.html = GetHTML(doc)]_vars

\* C10 witness: a debounced cycle in flight saves the current content although
\* its timer was armed by an earlier notification that carried another content.
C10_Witness ==
    \E c \in inflight :
        c.kind = "debounced" /\ c.html = GetHTML(doc) /\ c.arg # c.html

\* C11: when the persistence call of a cycle fails, no edit notification
\* arrived since that cycle started and no other save is in flight, the
\* scheduler is Idle again: no timer is armed, so that nothing is saved again
\* before a new edit notification or a click on Save.
C11_IdleAfterFailure ==
    [][(/\ RejectStep
        /\ \A c \in inflight \ inflight' : c.stamp = nextTimer
        /\ inflight' = {})
           => timers' = {}]_vars

\* an edit notification is delivered
EditStep == nextTimer' # nextTimer

\* C12: an edit notification by itself never replaces the Placeholder Index.
C12_EditLeavesIndex ==
    [][EditStep => placeholders' = placeholders]_vars

\* the characters of the document at positions from .. to - 1, <<>> when the
\* range does not lie inside one text node
TextAt(d, from, to) ==
    LET inside == {i \in 1..Len(d) : d[i].pos <= from /\ to <= d[i].pos + Len(d[i].text)}
    IN  IF inside = {} THEN <<>>
        ELSE LET n == d[CHOOSE i \in inside : TRUE]
             IN  SubSeq(n.text, from - n.pos + 1, to - n.pos)

\* no timer armed, no save in flight, and a cycle has completed since the last edit
Steady == timers = {} /\ inflight = {} /\ lastResult # "none"

\* C13: in the steady state the document text at [from, to) of every record
\* of the Placeholder Index is the record's text.
C13_SteadyOffsetsValid ==
    Steady => \A i \in 1..Len(placeholders) :
                  /\ placeholders[i].from < placeholders[i].to
                  /\ TextAt(doc, placeholders[i].from, placeholders[i].to) = placeholders[i].text

\* C13 witness: a steady state with a non-empty index written by the
\* scheduler's scan.
C13_Witness == Steady /\ placeholders # <<>> /\ lastScan = "page"

-----------------------------------------------------------------------------
(* The first revision of the page: autosave through the plain useDebounce   *)
(* hook.  Time is counted in seconds; an armed timeout carries the time it  *)
(* is due, and time does not pass beyond a due timeout.                     *)

MaxClock == 8

\* the delay handed to useDebounce: 6000 ms
AutosaveDelay == 6

\* The editor's onUpdate: handleEditorUpdate(html) is debouncedSave(html),
\* the hook's debouncedCallback; then handlePlaceholders(findPlaceholders()).
\* The hook never resets timerRef, so it always names the last timeout.
AutoEditorUpdate(d) ==
    /\ nextTimer <= MaxEdits
    /\ d # doc
    /\ doc' = d
    /\ timers' = ClearTimeout(timers, timerRef) \cup
           {[id |-> nextTimer, html |-> GetHTML(d), due |-> clock + AutosaveDelay]}
    /\ timerRef' = nextTimer
    /\ nextTimer' = nextTimer + 1
    /\ placeholders' = FindPlaceholders(d)
    /\ lastScan' = "editor"
    /\ unsavedSince' = IF unsavedSince = -1 THEN clock ELSE unsavedSince
    /\ UNCHANGED <<latestHtmlRef, isManualSaveDisabled, isSaving, hasUnsavedChanges,
                   drafts, inflight, nextCycle, fired, scanned, sinceManual,
                   manualDone, lastResult, source, clock,
                   editorReady, selection, focused, threw,
                   importPhase, isLoading, effectTimer, exportPending, exportFailed, failedAt,
                   tiptapToken, tokenError, tokenPending, mounted>>

\* The timeout t is due: the callback of debouncedSave runs with the html of
\* the call that armed t, up to `await saveDraft(html)`.
AutoTimerFire(t) ==
    /\ t \in timers
    /\ t.due = clock
    /\ timers' = timers \ {t}
    /\ fired' = fired \cup {t.id}
    /\ IF IsBlank(t.html)
       THEN UNCHANGED <<isSaving, inflight, nextCycle, unsavedSince>>
       ELSE /\ isSaving' = TRUE
            /\ inflight' = inflight \cup
                   {[id |-> nextCycle, kind |-> "autosave", html |-> t.html,
                     arg |-> t.html, stamp |-> nextTimer]}
            /\ nextCycle' = nextCycle + 1
            /\ unsavedSince' = -1
    /\ UNCHANGED <<doc, placeholders, timerRef, latestHtmlRef, isManualSaveDisabled,
                   hasUnsavedChanges, drafts, nextTimer, scanned, sinceManual,
                   manualDone, lastResult, lastScan, source, clock,
                   editorReady, selection, focused, threw,
                   importPhase, isLoading, effectTimer, exportPending, exportFailed, failedAt,
                   tiptapToken, tokenError, tokenPending, mounted>>

\* saveDraft of the autosave c settles: setLastSaved on success, the catch
\* on rejection, setIsSaving(false) in either case.
AutoSaveSettles(c, ok) ==
    /\ c \in inflight
    /\ inflight' = inflight \ {c}
    /\ drafts' = IF ok THEN SaveDraft(drafts, c.html) ELSE drafts
    /\ isSaving' = FALSE
    /\ lastResult' = IF ok THEN "ok" ELSE "failed"
    /\ UNCHANGED <<doc, placeholders, timerRef, latestHtmlRef, isManualSaveDisabled,
                   hasUnsavedChanges, timers, nextTimer, nextCycle, fired, scanned,
                   sinceManual, manualDone, lastScan, source, clock, unsavedSince,
                   editorReady, selection, focused, threw,
                   importPhase, isLoading, effectTimer, exportPending, exportFailed, failedAt,
                   tiptapToken, tokenError, tokenPending, mounted>>

\* one second passes; no timeout is overdue
Tick ==
    /\ clock < MaxClock
    /\ \A t \in timers : clock < t.due
    /\ clock' = clock + 1
    /\ UNCHANGED <<doc, placeholders, timerRef, latestHtmlRef, isManualSaveDisabled,
                   isSaving, hasUnsavedChanges, drafts, timers, inflight, nextTimer,
                   nextCycle, fired, scanned, sinceManual, manualDone, lastResult,
                   lastScan, source, unsavedSince,
                   editorReady, selection, focused, threw,
                   importPhase, isLoading, effectTimer, exportPending, exportFailed, failedAt,
                   tiptapToken, tokenError, tokenPending, mounted>>

NextAutosave ==
    \/ \E d \in Docs : AutoEditorUpdate(d)
    \/ \E t \in timers : AutoTimerFire(t)
    \/ \E c \in inflight : \E ok \in BOOLEAN : AutoSaveSettles(c, ok)
    \/ Tick

SpecAutosave == Init /\ [][NextAutosave]_vars

\* C14: saveDraft is triggered every 6 seconds: a save is issued within 6
\* seconds of the first edit that no save was issued after, also while
\* further edits keep arriving.
C14_SaveWithinDelay ==
    unsavedSince # -1 => clock - unsavedSince <= AutosaveDelay

-----------------------------------------------------------------------------
(* The two scanners on a loaded document.  The document is written as text  *)
(* nodes made of pieces: a run of plain text, a bracket token with its      *)
(* interior, or a double-brace token with its pipe-separated parts.  The    *)
(* variable source keeps the pieces the document was written from.          *)

MaxPieces == 3
MaxParts == 3

TextPiece(s) == [kind |-> "text", parts |-> <<s>>]
Bracket(inner) == [kind |-> "bracket", parts |-> <<inner>>]
Brace(parts) == [kind |-> "brace", parts |-> parts]

RECURSIVE JoinPipe(_)
JoinPipe(parts) ==
    IF Len(parts) = 1 THEN parts[1]
    ELSE parts[1] \o <<"|">> \o JoinPipe(Tail(parts))

\* the characters a piece contributes to its text node
PieceText(p) ==
    CASE p.kind = "text" -> p.parts[1]
      [] p.kind = "bracket" -> <<"[">> \o p.parts[1] \o <<"]">>
      [] p.kind = "brace" -> <<"{", "{">> \o JoinPipe(p.parts) \o <<"}", "}">>

RECURSIVE NodeText(_)
NodeText(pieces) ==
    IF pieces = <<>> THEN <<>> ELSE PieceText(Head(pieces)) \o NodeText(Tail(pieces))

\* the text nodes doc.descendants visits; a text node is never empty
RECURSIVE Build(_)
Build(src) ==
    IF src = <<>> THEN <<>>
    ELSE LET n == Head(src)
         IN  IF NodeText(n.pieces) = <<>> THEN Build(Tail(src))
             ELSE <<[pos |-> n.pos, text |-> NodeText(n.pieces)]>> \o Build(Tail(src))

\* single characters, and the tokens with an empty, blank or filled interior
Vocabulary ==
    {TextPiece(<<c>>) : c \in {"{", "}", "[", "]", "|", " ", "a"}}
    \cup {Bracket(i) : i \in {<<>>, <<" ">>, <<"a">>}}
    \cup {Brace(ps) : ps \in {<< <<>> >>, << <<" ">> >>, << <<"a">> >>, << <<"a">>, <<"b">> >>}}

SeqsUpTo(S, n) == UNION {[1..k -> S] : k \in 0..n}

\* one paragraph of up to MaxPieces pieces
OneNodeSources == {<<[pos |-> 1, pieces |-> ps]>> : ps \in SeqsUpTo(Vocabulary, MaxPieces)}

\* two paragraphs of one piece each; the second text node starts two
\* positions after the end of the first (a closing and an opening token)
TwoNodeSources ==
    {<<[pos |-> 1, pieces |-> <<p>>],
       [pos |-> 1 + Len(PieceText(p)) + 2, pieces |-> <<q>>]>> :
         p \in Vocabulary, q \in Vocabulary}

PartStrings == {<<>>, <<"a">>, <<" ">>, <<" ", "b", " ">>}

\* a single double-brace token of up to MaxParts parts
BraceSources ==
    {<<[pos |-> 1, pieces |-> <<Brace(ps)>>]>> :
         ps \in UNION {[1..k -> PartStrings] : k \in 1..MaxParts}}

AmountBrace == TextPiece(<<"{", "{", "a", "m", "o", "u", "n", "t", "}", "}">>)
AmountLabelled == TextPiece(<<"{", "{", "a", "m", "o", "u", "n", "t", "|", "T", "o", "t", "a", "l", " ", "A", "m", "o", "u", "n", "t", "}", "}">>)
AmountBracket == TextPiece(<<"[", "a", "m", "o", "u", "n", "t", "]">>)

\* the sentence "Dear {{client_name}}, your invoice of [amount] is due."
Invoice ==
    <<TextPiece(<<"D", "e", "a", "r", " ">>),
      Brace(<< <<"c", "l", "i", "e", "n", "t", "_", "n", "a", "m", "e">> >>),
      TextPiece(<<",", " ", "y", "o", "u", "r", " ", "i", "n", "v", "o", "i", "c", "e", " ", "o", "f", " ">>),
      Bracket(<<"a", "m", "o", "u", "n", "t">>),
      TextPiece(<<" ", "i", "s", " ", "d", "u", "e", ".">>)>>

ExampleSources ==
    {<<[pos |-> 0, pieces |-> <<p>>]>> : p \in {AmountBrace, AmountLabelled, AmountBracket}}
    \cup {<<[pos |-> 0, pieces |-> Invoice]>>}

ScanSources == OneNodeSources \cup TwoNodeSources \cup BraceSources \cup ExampleSources

InitScan ==
    /\ source \in ScanSources
    /\ doc = Build(source)
    /\ placeholders = <<>>
    /\ timerRef = 0
    /\ latestHtmlRef = <<>>
    /\ isManualSaveDisabled = FALSE
    /\ isSaving = FALSE
    /\ hasUnsavedChanges = FALSE
    /\ drafts = <<>>
    /\ timers = {}
    /\ inflight = {}
    /\ nextTimer = 1
    /\ nextCycle = 1
    /\ fired = {}
    /\ scanned = {}
    /\ sinceManual = "never"
    /\ manualDone = FALSE
    /\ lastResult = "none"
    /\ lastScan = "none"
    /\ clock = 0
    /\ unsavedSince = -1
    /\ tiptapToken = TRUE
    /\ tokenError = "none"
    /\ tokenPending = FALSE
    /\ mounted = TRUE
    /\ importPhase = "none"
    /\ isLoading = FALSE
    /\ effectTimer = FALSE
    /\ exportPending = FALSE
    /\ exportFailed = FALSE
    /\ failedAt = 0
    /\ editorReady = TRUE
    /\ selection = [from |-> 1, to |-> 1]
    /\ focused = FALSE
    /\ threw = FALSE

\* onCreate and the completion of a DOCX import: the editor's scanner
\* replaces the index through handlePlaceholders
LoadScan ==
    /\ placeholders' = FindPlaceholders(doc)
    /\ lastScan' = "editor"
    /\ UNCHANGED <<doc, timerRef, latestHtmlRef, isManualSaveDisabled, isSaving,
                   hasUnsavedChanges, drafts, timers, inflight, nextTimer, nextCycle,
                   fired, scanned, sinceManual, manualDone, lastResult, source,
                   clock, unsavedSince,
                   editorReady, selection, focused, threw,
                   importPhase, isLoading, effectTimer, exportPending, exportFailed, failedAt,
                   tiptapToken, tokenError, tokenPending, mounted>>

\* handlePlaceholderUpdate: the page's scanner
PageScanStep ==
    /\ placeholders' = HandlePlaceholderUpdate(placeholders, doc)
    /\ lastScan' = "page"
    /\ UNCHANGED <<doc, timerRef, latestHtmlRef, isManualSaveDisabled, isSaving,
                   hasUnsavedChanges, drafts, timers, inflight, nextTimer, nextCycle,
                   fired, scanned, sinceManual, manualDone, lastResult, source,
                   clock, unsavedSince,
                   editorReady, selection, focused, threw,
                   importPhase, isLoading, effectTimer, exportPending, exportFailed, failedAt,
                   tiptapToken, tokenError, tokenPending, mounted>>

NextScan == LoadScan \/ PageScanStep

SpecScan == InitScan /\ [][NextScan]_vars

\* a scan has written the index
Scanned == lastScan # "none"

-----------------------------------------------------------------------------
(* Scan results *)

Delimiters == {"{", "}", "[", "]"}

Plain(s) == \A i \in 1..Len(s) : s[i] \notin Delimiters

NonBlank(s) == \E i \in 1..Len(s) : s[i] # " "

\* a well-formed token with a non-empty interior
IsToken(p) ==
    /\ p.kind \in {"bracket", "brace"}
    /\ \A k \in 1..Len(p.parts) : Plain(p.parts[k])
    /\ NonBlank(JoinPipe(p.parts))

IsFiller(p) == p.kind = "text" /\ Plain(p.parts[1])

WellFormed(src) ==
    \A n \in 1..Len(src) : \A k \in 1..Len(src[n].pieces) :
        IsToken(src[n].pieces[k]) \/ IsFiller(src[n].pieces[k])

RECURSIVE NTokens(_)
NTokens(src) ==
    IF src = <<>> THEN 0
    ELSE Cardinality({k \in 1..Len(Head(src).pieces) : IsToken(Head(src).pieces[k])})
         + NTokens(Tail(src))

\* C15: a scan of a document with N well-formed, non-empty, non-overlapping
\* tokens (N = 0 included) yields exactly N records, in ascending order of
\* from, each with to - from equal to the length of its text.
C15_OneRecordPerToken ==
    (Scanned /\ WellFormed(source)) =>
        /\ Len(placeholders) = NTokens(source)
        /\ \A i \in 1..Len(placeholders) :
               placeholders[i].to - placeholders[i].from = Len(placeholders[i].text)
        /\ \A i, j \in 1..Len(placeholders) :
               i < j => placeholders[i].from < placeholders[j].from

AllSpaces(s, a, b) == \A i \in a..b : s[i] = " "

\* the degenerate forms: [], {}, {{}} and tokens with a whitespace-only interior
Degenerate(t) ==
    \/ t \in {<<"[", "]">>, <<"{", "}">>, <<"{", "{", "}", "}">>}
    \/ /\ Len(t) >= 4
       /\ t[1] = "{" /\ t[2] = "{" /\ t[Len(t) - 1] = "}" /\ t[Len(t)] = "}"
       /\ AllSpaces(t, 3, Len(t) - 2)
    \/ /\ Len(t) >= 2
       /\ t[1] = "[" /\ t[Len(t)] = "]"
       /\ AllSpaces(t, 2, Len(t) - 1)

\* C16: no scan output, and so no state of the Placeholder Index, contains a
\* record whose text is a degenerate form: [], {}, {{}} or a token whose
\* interior is only whitespace.
C16_NoDegenerateRecord ==
    \A i \in 1..Len(placeholders) : ~Degenerate(placeholders[i].text)

\* the document is the single piece p in one text node
SourceIs(p) == Len(source) = 1 /\ source[1].pieces = <<p>>

\* the index holds one record, with this label
OneLabel(l) == Len(placeholders) = 1 /\ placeholders[1].label = l

\* C17: the label of {{amount}} is "amount", the label of
\* {{amount|Total Amount}} is "Total Amount", and the label of [amount] is
\* "amount".
C17_LabelExamples ==
    Scanned =>
        /\ SourceIs(AmountBrace) => OneLabel(<<"a", "m", "o", "u", "n", "t">>)
        /\ SourceIs(AmountLabelled) => OneLabel(<<"T", "o", "t", "a", "l", " ", "A", "m", "o", "u", "n", "t">>)
        /\ SourceIs(AmountBracket) => OneLabel(<<"a", "m", "o", "u", "n", "t">>)

\* s without its leading and trailing spaces
Trimmed(s) ==
    LET ns == {i \in 1..Len(s) : s[i] # " "}
    IN  IF ns = {} THEN <<>>
        ELSE SubSeq(s, CHOOSE i \in ns : \A j \in ns : i <= j,
                       CHOOSE i \in ns : \A j \in ns : j <= i)

\* the document is one double-brace token, and a scan has recorded it
BraceScanned ==
    /\ Scanned
    /\ Len(source) = 1
    /\ Len(source[1].pieces) = 1
    /\ source[1].pieces[1].kind = "brace"
    /\ placeholders # <<>>

TokenParts == source[1].pieces[1].parts

InvoiceScanned ==
    Scanned /\ source = <<[pos |-> 0, pieces |-> Invoice]>>

ClientNameToken == <<"{", "{", "c", "l", "i", "e", "n", "t", "_", "n", "a", "m", "e", "}", "}">>

AmountToken == <<"[", "a", "m", "o", "u", "n", "t", "]">>

C20_NoDuplicateText ==
    Scanned =>
        \A i, j \in 1..Len(placeholders) :
            i # j => placeholders[i].text # placeholders[j].text

-----------------------------------------------------------------------------
(* Invariants of the index *)

\* C21: every record of the Placeholder Index has 0 <= from < to and
\* to - from equal to the length of its text, and the records are in strictly
\* ascending order of from with no two ranges overlapping, whichever scan
\* wrote the index.
C21_IndexWellFormed ==
    /\ \A i \in 1..Len(placeholders) :
           /\ 0 <= placeholders[i].from
           /\ placeholders[i].from < placeholders[i].to
           /\ placeholders[i].to - placeholders[i].from = Len(placeholders[i].text)
    /\ \A i \in 1..Len(placeholders) - 1 :
           /\ placeholders[i].from < placeholders[i + 1].from
           /\ placeholders[i].to <= placeholders[i + 1].from

\* C21 witness: the page's scan has recorded a token in each of two text
\* nodes.
C21_Witness ==
    /\ lastScan = "page"
    /\ Len(doc) = 2
    /\ Len(placeholders) = 2
    /\ placeholders[2].from >= doc[2].pos

-----------------------------------------------------------------------------
(* Change detection: the comparison of setPlaceholders at its two call      *)
(* sites, applied to the index an earlier scan left and the result of a new *)
(* scan.  In the revision of the page that compares in handlePlaceholders   *)
(* the new scan is the editor's, after an edit; in handlePlaceholderUpdate  *)
(* it is the page's own.                                                    *)

ChangeVocabulary ==
    {TextPiece(<<" ">>), Bracket(<<"a">>), Bracket(<<"b">>), Brace(<< <<"a">> >>)}

\* the contents the user moves between: one paragraph of up to MaxPieces pieces
ChangeSources ==
    {<<[pos |-> 1, pieces |-> ps]>> : ps \in SeqsUpTo(ChangeVocabulary, MaxPieces)}

\* handlePlaceholders of the comparing revision
HandlePlaceholders(prev, list) ==
    IF HasChanged(prev, list) THEN list ELSE prev

\* the pieces of a content of at most one paragraph
PiecesOf(src) == IF src = <<>> THEN <<>> ELSE src[1].pieces

\* b is a with one element taken out
WithoutOne(a, b) ==
    /\ Len(a) = Len(b) + 1
    /\ \E k \in 1..Len(a) : b = SubSeq(a, 1, k - 1) \o SubSeq(a, k + 1, Len(a))

\* an edit types or deletes one piece; the editor scans its new content and
\* hands the list to handlePlaceholders
ChangeEdit(src) ==
    /\ WithoutOne(PiecesOf(source), PiecesOf(src)) \/ WithoutOne(PiecesOf(src), PiecesOf(source))
    /\ source' = src
    /\ doc' = Build(src)
    /\ placeholders' = HandlePlaceholders(placeholders, FindPlaceholders(Build(src)))
    /\ lastScan' = "editor"
    /\ UNCHANGED <<timerRef, latestHtmlRef, isManualSaveDisabled, isSaving,
                   hasUnsavedChanges, drafts, timers, inflight, nextTimer, nextCycle,
                   fired, scanned, sinceManual, manualDone, lastResult,
                   clock, unsavedSince,
                   editorReady, selection, focused, threw,
                   importPhase, isLoading, effectTimer, exportPending, exportFailed, failedAt,
                   tiptapToken, tokenError, tokenPending, mounted>>

NextChange ==
    \/ \E src \in ChangeSources : ChangeEdit(src)
    \/ PageScanStep

SpecChange == Init /\ [][NextChange]_vars

\* next is prev with one record appended
IsAppend(prev, next) ==
    Len(next) = Len(prev) + 1 /\ SubSeq(next, 1, Len(prev)) = prev

\* next is prev with one record removed
IsRemove(prev, next) == WithoutOne(prev, next)

\* next is prev with the from and to of one record moved
IsShift(prev, next) ==
    /\ Len(prev) = Len(next)
    /\ \E k \in 1..Len(prev) :
           /\ next[k].text = prev[k].text
           /\ next[k].from # prev[k].from
           /\ next[k].to - next[k].from = prev[k].to - prev[k].from
           /\ \A i \in 1..Len(prev) : i # k => next[i] = prev[i]

\* the result of the scan a step has made
NewScan == IF lastScan' = "editor" THEN FindPlaceholders(doc') ELSE PageScan(doc')

\* the comparison of the stored index prev with the new scan next, and the
\* index kept afterwards
Compared(prev, next, kept) ==
    /\ ~HasChanged(prev, prev)
    /\ ~HasChanged(next, next)
    /\ (IsAppend(prev, next) \/ IsRemove(prev, next) \/ IsShift(prev, next))
           => HasChanged(prev, next)
    /\ kept = IF HasChanged(prev, next) THEN next ELSE prev

\* C22: hasChanged(X, X) is false for every record sequence X; it is true
\* whenever the new scan differs from the stored index by an appended
\* record, a removed record or a shifted record; and the stored index is kept
\* when the test is false and replaced by the new scan when it is true.
C22_ChangeDetection ==
    [][Compared(placeholders, NewScan, placeholders')]_vars

\* C22 witness: after an edit that put a space in front of two tokens, the
\* index holds both records one position further.
C22_Witness ==
    /\ lastScan = "editor"
    /\ source = <<[pos |-> 1, pieces |-> <<TextPiece(<<" ">>), Bracket(<<"a">>), Bracket(<<"b">>)>>]>>
    /\ Len(placeholders) = 2
    /\ placeholders[1].from = 2
    /\ placeholders[2].from = 5

-----------------------------------------------------------------------------
(* Navigation to a record: handlePlaceholderNavigation, reached through the *)
(* navigateToPlaceholder method of the component's ref handle.              *)

\* the size of the document: a paragraph takes its text and two tokens
DocSize(d) ==
    IF d = <<>> THEN 2 ELSE d[Len(d)].pos + Len(d[Len(d)].text) + 1

\* the first render: useEditor has not created the editor yet
InitNav ==
    /\ doc = <<>>
    /\ placeholders = <<>>
    /\ timerRef = 0
    /\ latestHtmlRef = <<>>
    /\ isManualSaveDisabled = FALSE
    /\ isSaving = FALSE
    /\ hasUnsavedChanges = FALSE
    /\ drafts = <<>>
    /\ timers = {}
    /\ inflight = {}
    /\ nextTimer = 1
    /\ nextCycle = 1
    /\ fired = {}
    /\ scanned = {}
    /\ sinceManual = "never"
    /\ manualDone = FALSE
    /\ lastResult = "none"
    /\ lastScan = "none"
    /\ source = <<>>
    /\ clock = 0
    /\ unsavedSince = -1
    /\ tiptapToken = TRUE
    /\ tokenError = "none"
    /\ tokenPending = FALSE
    /\ mounted = TRUE
    /\ importPhase = "none"
    /\ isLoading = FALSE
    /\ effectTimer = FALSE
    /\ exportPending = FALSE
    /\ exportFailed = FALSE
    /\ failedAt = 0
    /\ editorReady = FALSE
    /\ selection = [from |-> 1, to |-> 1]
    /\ focused = FALSE
    /\ threw = FALSE

\* useEditor creates the editor; onCreate scans the empty content
EditorCreated ==
    /\ ~editorReady
    /\ editorReady' = TRUE
    /\ placeholders' = FindPlaceholders(doc)
    /\ lastScan' = "editor"
    /\ UNCHANGED <<doc, timerRef, latestHtmlRef, isManualSaveDisabled, isSaving,
                   hasUnsavedChanges, drafts, timers, inflight, nextTimer, nextCycle,
                   fired, scanned, sinceManual, manualDone, lastResult, source,
                   clock, unsavedSince, selection, focused, threw,
                   importPhase, isLoading, effectTimer, exportPending, exportFailed, failedAt,
                   tiptapToken, tokenError, tokenPending, mounted>>

InBounds(r) == 0 <= r.from /\ r.to <= DocSize(doc)

\* a position brought into the positions a text selection can take
Clamp(x) ==
    LET lo == 1
        hi == DocSize(doc) - 1
    IN  IF x < lo THEN lo ELSE IF x > hi THEN hi ELSE x

\* handlePlaceholderNavigation(r): returns when there is no editor; otherwise
\* runs chain().focus().setTextSelection({from, to}) whatever the range is.
\* For a range outside the document the editor library either clamps the
\* range or throws, depending on its version.
Navigate(r) ==
    IF ~editorReady
    THEN UNCHANGED vars
    ELSE /\ \/ /\ InBounds(r)
               /\ selection' = [from |-> r.from, to |-> r.to]
               /\ focused' = TRUE
               /\ UNCHANGED threw
            \/ /\ ~InBounds(r)
               /\ selection' = [from |-> Clamp(r.from), to |-> Clamp(r.to)]
               /\ focused' = TRUE
               /\ UNCHANGED threw
            \/ /\ ~InBounds(r)
               /\ threw' = TRUE
               /\ UNCHANGED <<selection, focused>>
         /\ UNCHANGED <<doc, placeholders, timerRef, latestHtmlRef, isManualSaveDisabled,
                        isSaving, hasUnsavedChanges, drafts, timers, inflight, nextTimer,
                        nextCycle, fired, scanned, sinceManual, manualDone, lastResult,
                        lastScan, source, clock, unsavedSince, editorReady,
                        importPhase, isLoading, effectTimer, exportPending, exportFailed,
                        failedAt, tiptapToken, tokenError, tokenPending, mounted>>

RECURSIVE RecordsOf(_)
RecordsOf(list) ==
    IF list = <<>> THEN {} ELSE {Head(list)} \cup RecordsOf(Tail(list))

\* the records a caller can hold: those of any scan of any content
NavRecords ==
    UNION {RecordsOf(FindPlaceholders(d)) \cup RecordsOf(PageScan(d)) : d \in Docs}

NextNav ==
    \/ EditorCreated
    \/ \E d \in Docs : editorReady /\ EditorUpdate(d)
    \/ \E r \in NavRecords : Navigate(r)

SpecNav == InitNav /\ [][NextNav]_vars

\* C23: navigate(record) changes nothing and does not throw when the editing
\* surface is not yet initialised or the record's range is out of bounds for
\* the current document; otherwise it sets the selection to [from, to) and
\* focuses the surface.
C23_NavigateGuarded ==
    [][\A r \in NavRecords :
           Navigate(r) =>
               IF ~editorReady \/ ~InBounds(r)
               THEN selection' = selection /\ focused' = focused /\ threw' = threw
               ELSE /\ selection' = [from |-> r.from, to |-> r.to]
                    /\ focused'
                    /\ threw' = threw]_vars

\* C24: the label of a record is never the empty string: when the stripped
\* and trimmed candidate is empty, the label is the whole token.
C24_LabelNeverEmpty ==
    Scanned => \A i \in 1..Len(placeholders) : placeholders[i].label # <<>>

-----------------------------------------------------------------------------
(* DOCX import from docUrl and DOCX export, next to the editing session.    *)

MaxDocxEdits == 2

\* the session variables an import or export step leaves alone
sessionVars == <<timerRef, latestHtmlRef, isManualSaveDisabled, isSaving,
                 hasUnsavedChanges, drafts, timers, inflight, nextTimer, nextCycle,
                 fired, scanned, sinceManual, manualDone, lastResult, source, clock,
                 unsavedSince, editorReady, selection, focused, threw,
                 tiptapToken, tokenError, tokenPending, mounted>>

\* the import effect starts: setIsLoading(true), setHasImportedDocx(true),
\* then the download of docUrl is awaited; the effect's cleanup clears the
\* detection timeout
ImportStart ==
    /\ importPhase = "none"
    /\ editorReady
    /\ importPhase' = "fetching"
    /\ isLoading' = TRUE
    /\ effectTimer' = FALSE
    /\ UNCHANGED <<doc, placeholders, lastScan, exportPending, exportFailed, failedAt>>
    /\ UNCHANGED sessionVars

\* the download settles.  On failure the catch block sets the error and
\* isLoading false.  On success importDocxFile hands the file to the import
\* extension and its finally block sets isLoading false at once.  Either way
\* the detection effect re-runs and arms its timeout.
FetchSettles(ok) ==
    /\ importPhase = "fetching"
    /\ importPhase' = IF ok THEN "converting" ELSE "unfetched"
    /\ failedAt' = IF ok THEN failedAt ELSE nextTimer
    /\ isLoading' = FALSE
    /\ effectTimer' = TRUE
    /\ UNCHANGED <<doc, placeholders, lastScan, exportPending, exportFailed>>
    /\ UNCHANGED sessionVars

\* onImport that puts the converted content into the editor although the
\* context carries an error
ImportFails_SetsContent ==
    /\ importPhase = "converting"
    /\ importPhase' = "failed"
    /\ failedAt' = nextTimer
    /\ isLoading' = FALSE
    /\ doc' = <<>>
    /\ placeholders' = FindPlaceholders(<<>>)
    /\ lastScan' = "editor"
    /\ UNCHANGED <<effectTimer, exportPending, exportFailed>>
    /\ UNCHANGED sessionVars

\* onImport with an error in its context: setIsLoading(false), setError, return
ImportFails ==
    /\ importPhase = "converting"
    /\ importPhase' = "failed"
    /\ failedAt' = nextTimer
    /\ isLoading' = FALSE
    /\ UNCHANGED <<doc, placeholders, lastScan, effectTimer, exportPending, exportFailed>>
    /\ UNCHANGED sessionVars

\* onImport without an error: setEditorContent() puts the converted content d
\* into the editor, which notifies onUpdate, and the editor's scanner
\* replaces the index
ImportSucceeds(d) ==
    /\ importPhase = "converting"
    /\ nextTimer <= MaxDocxEdits
    /\ importPhase' = "imported"
    /\ isLoading' = FALSE
    /\ OnUpdate(d)
    /\ UNCHANGED <<effectTimer, exportPending, exportFailed, failedAt>>

\* the timeout of the detection effect: the index is replaced if the editor's
\* scanner finds anything
EffectScan ==
    /\ effectTimer
    /\ effectTimer' = FALSE
    /\ IF FindPlaceholders(doc) # <<>>
       THEN placeholders' = FindPlaceholders(doc) /\ lastScan' = "editor"
       ELSE UNCHANGED <<placeholders, lastScan>>
    /\ UNCHANGED <<doc, importPhase, isLoading, exportPending, exportFailed, failedAt>>
    /\ UNCHANGED sessionVars

\* handleExport up to its await
ExportStart ==
    /\ ~exportPending
    /\ exportPending' = TRUE
    /\ exportFailed' = FALSE
    /\ UNCHANGED <<doc, placeholders, lastScan, importPhase, isLoading, effectTimer, failedAt>>
    /\ UNCHANGED sessionVars

\* exportToDocx settles: the download is triggered, or the error is caught
\* and the alert shown
ExportSettles(ok) ==
    /\ exportPending
    /\ exportPending' = FALSE
    /\ exportFailed' = ~ok
    /\ failedAt' = IF ok THEN failedAt ELSE nextTimer
    /\ UNCHANGED <<doc, placeholders, lastScan, importPhase, isLoading, effectTimer>>
    /\ UNCHANGED sessionVars

\* the steps of the editing session, for up to MaxDocxEdits edits and cycles
SessionStep ==
    \/ \E d \in Docs : nextTimer <= MaxDocxEdits /\ EditorUpdate(d)
    \/ \E t \in timers : nextCycle <= MaxDocxEdits /\ TimerFire(t)
    \/ nextCycle <= MaxDocxEdits /\ ManualSave
    \/ \E c \in inflight : \E ok \in BOOLEAN : SaveDraftSettles(c, ok)

NextDocx ==
    \/ SessionStep
    \/ ImportStart
    \/ \E ok \in BOOLEAN : FetchSettles(ok)
    \/ ImportFails
    \/ \E d \in Docs : ImportSucceeds(d)
    \/ EffectScan
    \/ ExportStart
    \/ \E ok \in BOOLEAN : ExportSettles(ok)

SpecDocx == Init /\ [][NextDocx]_vars

\* a DOCX conversion has just failed: the import reported an error, or the
\* export ended in the alert
ImportFailStep == importPhase = "converting" /\ importPhase' = "failed"

ExportFailStep == exportPending /\ ~exportPending' /\ exportFailed'

\* C25: a DOCX conversion failure, on import or on export, leaves the
\* document and the Placeholder Index as they were, and the editor stays in
\* place for the edits, saves and scans that follow.
C25_FailureFrame ==
    /\ [][(ImportFailStep \/ ExportFailStep) =>
              (doc' = doc /\ placeholders' = placeholders /\ editorReady')]_vars
    /\ []((importPhase = "failed" \/ exportFailed) => editorReady)

\* C25 witness: after a failed import and a failed export, an edit made
\* since the failure has been saved and the page has scanned the document.
C25_Witness ==
    /\ importPhase = "failed"
    /\ exportFailed
    /\ failedAt > 0
    /\ \E t \in fired : t >= failedAt
    /\ lastResult = "ok"
    /\ lastScan = "page"
    /\ drafts # <<>>
    /\ drafts[Len(drafts)] = GetHTML(doc)

\* C26: the two scanners produce the same record sequence for every
\* document, so the index does not depend on which of them wrote it last.
C26_ScannersAgree ==
    Scanned => /\ placeholders = FindPlaceholders(doc)
               /\ placeholders = PageScan(doc)

-----------------------------------------------------------------------------
(* The Tiptap token: fetchTiptapToken and the render branches of the        *)
(* TiptapEditor wrapper.                                                    *)

\* the mount of the wrapper: the token request is under way
InitToken ==
    /\ doc = <<>>
    /\ placeholders = <<>>
    /\ timerRef = 0
    /\ latestHtmlRef = <<>>
    /\ isManualSaveDisabled = FALSE
    /\ isSaving = FALSE
    /\ hasUnsavedChanges = FALSE
    /\ drafts = <<>>
    /\ timers = {}
    /\ inflight = {}
    /\ nextTimer = 1
    /\ nextCycle = 1
    /\ fired = {}
    /\ scanned = {}
    /\ sinceManual = "never"
    /\ manualDone = FALSE
    /\ lastResult = "none"
    /\ lastScan = "none"
    /\ source = <<>>
    /\ clock = 0
    /\ unsavedSince = -1
    /\ tiptapToken = FALSE
    /\ tokenError = "none"
    /\ tokenPending = TRUE
    /\ mounted = TRUE
    /\ importPhase = "none"
    /\ isLoading = FALSE
    /\ effectTimer = FALSE
    /\ exportPending = FALSE
    /\ exportFailed = FALSE
    /\ failedAt = 0
    /\ editorReady = FALSE
    /\ selection = [from |-> 1, to |-> 1]
    /\ focused = FALSE
    /\ threw = FALSE

\* what the wrapper renders
View ==
    IF tokenError = "other" THEN "error"
    ELSE IF ~tiptapToken
    THEN IF tokenError # "none" THEN "editor" ELSE "spinner"
    ELSE "editor"

\* the ways the token request ends: a token, the 10 s abort, a response that
\* is not ok, a response without a token
TokenOutcomes == {"token", "timeout", "http", "missing"}

TokenSettles(outcome) ==
    /\ tokenPending
    /\ tokenPending' = FALSE
    /\ tiptapToken' = (outcome = "token")
    /\ tokenError' = CASE outcome = "token" -> "none"
                       [] outcome = "timeout" -> "timeout"
                       [] OTHER -> "other"
    /\ UNCHANGED <<doc, placeholders, lastScan, importPhase, isLoading, effectTimer,
                   exportPending, exportFailed, failedAt, mounted>>
    /\ UNCHANGED <<timerRef, latestHtmlRef, isManualSaveDisabled, isSaving,
                   hasUnsavedChanges, drafts, timers, inflight, nextTimer, nextCycle,
                   fired, scanned, sinceManual, manualDone, lastResult, source, clock,
                   unsavedSince, editorReady, selection, focused, threw>>

NextToken ==
    \/ \E outcome \in TokenOutcomes : TokenSettles(outcome)
    \/ View = "editor" /\ EditorCreated
    \/ editorReady /\ SessionStep

SpecToken == InitToken /\ [][NextToken]_vars

\* C27: a failed token request never blocks the editor: after a timeout or
\* any other failure the editor component is rendered, not an error view.
C27_TokenFailureKeepsEditor ==
    (~tokenPending /\ ~tiptapToken) => View = "editor"

-----------------------------------------------------------------------------
(* The unsaved-changes flag *)

\* C28: whenever hasUnsavedChanges is false after at least one edit, the
\* content persisted last is the content of the latest edit notification; an
\* edit that arrives while a save is in flight is still reported as unsaved
\* when that save completes.
C28_SavedMeansLatest ==
    (~hasUnsavedChanges /\ nextTimer > 1) =>
        /\ drafts # <<>>
        /\ drafts[Len(drafts)] = latestHtmlRef
        /\ latestHtmlRef = GetHTML(doc)

-----------------------------------------------------------------------------
(* Progress of the scheduler.  The host runs every armed timeout, and every *)
(* saveDraft call settles; edits and clicks on Save are up to the user.     *)
(* Edits and manual saves are taken only while a cycle is left for every    *)
(* armed timer.                                                             *)

MaxLiveEdits == 2

CycleLeft == nextCycle + Cardinality(timers) <= MaxCycles

NextLive ==
    \/ \E d \in Docs : nextTimer <= MaxLiveEdits /\ CycleLeft /\ EditorUpdate(d)
    \/ \E t \in timers : TimerFire(t)
    \/ CycleLeft /\ ManualSave
    \/ \E c \in inflight : \E ok \in BOOLEAN : SaveDraftSettles(c, ok)

\* some saveDraft call settles
Settle == \E c \in inflight : \E ok \in BOOLEAN : SaveDraftSettles(c, ok)

\* ENABLED <<Settle>>_vars: a call is in flight (settling has no other guard
\* and always changes inflight)
SettleEnabled == inflight # {}

\* WF_vars(Settle), with ENABLED <<Settle>>_vars written as SettleEnabled
SettleFair == []<>(~SettleEnabled) \/ []<><<Settle>>_vars

SpecLive ==
    /\ Init
    /\ [][NextLive]_vars
    /\ WF_vars(\E t \in timers : TimerFire(t))
    /\ SettleFair

\* a cycle started since the last edit is carrying the content of that edit
LatestAttempted ==
    \E c \in inflight : c.stamp = nextTimer /\ c.html = GetHTML(doc)

\* no cycle has started or settled since the last edit
NoneSinceEdit ==
    lastResult = "none" /\ \A c \in inflight : c.stamp # nextTimer

\* nothing armed, nothing in flight, and the page's scan came last
IdleScanned ==
    timers = {} /\ inflight = {} /\ lastResult # "none" /\ lastScan = "page"

\* C29: edits are finitely many here, so they stop.  From the state an edit
\* leaves, a persistence call started after the latest edit and carrying its
\* content is eventually attempted; and the scheduler ends, for good, idle
\* with no timer armed, nothing in flight, and the page's scan following the
\* last settled call.
C29_EventuallySavedAndIdle ==
    /\ (nextTimer > 1 /\ NoneSinceEdit) ~> LatestAttempted
    /\ <>[](nextTimer > 1 => IdleScanned)

\* C29 witness: two edits have been made, the content of the second was
\* saved, and the scheduler is idle after the page's scan.
C29_Witness ==
    /\ nextTimer = 3
    /\ IdleScanned
    /\ lastResult = "ok"
    /\ drafts # <<>>
    /\ drafts[Len(drafts)] = GetHTML(doc)

-----------------------------------------------------------------------------
(* Leaving the page.  The editor's cleanup effect destroys the editor and   *)
(* React clears the page's ref to it; the page never calls the hook's       *)
(* cancel(), so whatever timeout is armed stays in the host's queue.        *)

\* The page is unmounted: editor.destroy() in the cleanup effect.  Nothing
\* clears the hook's timer.
Unmount ==
    /\ mounted
    /\ mounted' = FALSE
    /\ editorReady' = FALSE
    /\ UNCHANGED <<doc, placeholders, timerRef, latestHtmlRef,
                   isManualSaveDisabled, isSaving, hasUnsavedChanges, drafts,
                   timers, inflight, nextTimer, nextCycle, fired, scanned,
                   sinceManual, manualDone, lastResult, lastScan, source,
                   clock, unsavedSince, selection, focused, threw,
                   importPhase, isLoading, effectTimer, exportPending,
                   exportFailed, failedAt, tiptapToken, tokenError,
                   tokenPending>>

\* handleSave's continuation and the rest of the cycle body on the unmounted
\* page: the draft is stored, the state setters of the unmounted components
\* are dropped, handlePlaceholderUpdate returns at its first line because
\* editorRef.current is null, and the hook's refs are still written.
SettleUnmounted(c, ok) ==
    /\ ~mounted
    /\ c \in inflight
    /\ inflight' = inflight \ {c}
    /\ drafts' = IF ok THEN SaveDraft(drafts, c.html) ELSE drafts
    /\ lastResult' = IF ok THEN "ok" ELSE "failed"
    /\ timerRef' = IF c.kind = "debounced" THEN 0 ELSE timerRef
    /\ UNCHANGED <<doc, placeholders, latestHtmlRef, isManualSaveDisabled,
                   isSaving, hasUnsavedChanges, timers, nextTimer, nextCycle,
                   fired, scanned, sinceManual, manualDone, lastScan, source,
                   clock, unsavedSince, editorReady, selection, focused,
                   threw, importPhase, isLoading, effectTimer, exportPending,
                   exportFailed, failedAt, tiptapToken, tokenError,
                   tokenPending, mounted>>

NextUnmount ==
    \/ mounted /\ SessionStep
    \/ Unmount
    \/ \E t \in timers : ~mounted /\ TimerFire(t)
    \/ \E c \in inflight : \E ok \in BOOLEAN : SettleUnmounted(c, ok)

SpecUnmount == Init /\ [][NextUnmount]_vars

\* C30: once the page is unmounted and the editor destroyed, no timer is
\* armed any more, and no step fires a timer, starts a persistence call or
\* runs a scan.
C30_QuietAfterUnmount ==
    /\ [](~mounted => timers = {})
    /\ [][~mounted => (fired' = fired /\ inflight' \subseteq inflight /\ scanned' = scanned)]_vars

====
